---- MODULE Spec2Model ----
(***************************************************************************)
(* Model of custom_components/inventory_manager: InventoryManagerItem      *)
(* (the per-item quantity map and its derived metrics) and the WarnSensor  *)
(* binary sensor that the item refreshes after every mutation.             *)
(*                                                                         *)
(* Numbers are modelled as integers; the one place where the code divides  *)
(* (days_remaining) yields an exact fraction [num, den] in lowest terms.   *)
(***************************************************************************)
EXTENDS Integers, Sequences, FiniteSets, TLC

VARIABLES
    numbers,     \* InventoryManagerItem._numbers : dict tag -> value
    entity,      \* keys of InventoryManagerItem.entity (registered sub entities)
    data,        \* InventoryManagerItem.data[CONF_SENSOR_BEFORE_EMPTY]
    is_on,       \* WarnSensor.is_on
    available,   \* WarnSensor.available
    prediction,  \* value last shown by the EMPTYPREDICTION sub entity
    calls,       \* update() invocations per sub entity during the last call
    last,        \* the last public call: [op, tag, val, had]; had is the supply
                 \* a take_number / take_dose call found
    ret          \* what the last call returned

vars == <<numbers, entity, data, is_on, available, prediction, calls, last, ret>>

----------------------------------------------------------------------------
(* Bounds of the model *)

MaxVal == 1          \* largest value handed to set
MaxAmount == 2       \* largest amount handed to take_number
MaxSupply == 3       \* cap on the supply reachable through negative takes

Vals == -1 .. MaxVal
Amounts == -1 .. MaxAmount

----------------------------------------------------------------------------
(* InventoryManagerEntityType (IntFlag) *)

SUPPLY == 1
NIGHT == 4
MORNING == 8
NOON == 32
EVENING == 64
WARNING == 128
EMPTYPREDICTION == 256

InventoryManagerEntityType ==
    {SUPPLY, NIGHT, MORNING, NOON, EVENING, WARNING, EMPTYPREDICTION}

\* An IntFlag also admits combinations of members, e.g. MORNING | NOON.
MORNING_NOON == MORNING + NOON

SENTINEL == 10000
STATE_UNAVAILABLE == "unavailable"

\* Values of data[CONF_SENSOR_BEFORE_EMPTY] considered.
Thresholds == {2, SENTINEL + 1}

----------------------------------------------------------------------------
(* Fractions: the result of Python's true division of two numbers *)

RECURSIVE GCD(_, _)
GCD(a, b) == IF b = 0 THEN a ELSE GCD(b, a % b)

Whole(n) == [num |-> n, den |-> 1]

\* a / b for a >= 0, b > 0
TrueDiv(a, b) == LET g == GCD(a, b) IN [num |-> a \div g, den |-> b \div g]

\* r < t for a fraction r and an integer t
Less(r, t) == r.num < t * r.den

\* Python's == between a number and a str is always False
EqualsStr(r, s) == FALSE

None == [num |-> 0, den |-> 0]

----------------------------------------------------------------------------
(* InventoryManagerItem *)

\* dict.setdefault: the dict after the call
setdefault(d, k, v) ==
    IF k \in DOMAIN d THEN d
    ELSE [x \in DOMAIN d \cup {k} |-> IF x = k THEN v ELSE d[x]]

\* dict.__setitem__
setitem(d, k, v) == [x \in DOMAIN d \cup {k} |-> IF x = k THEN v ELSE d[x]]

\* the value a key holds, 0 for a key never written (what a read yields)
Stored(n, k) == IF k \in DOMAIN n THEN n[k] ELSE 0

\* get written with dict.get: returns the default without storing it
get_without_store(n, entity_type) ==
    [numbers |-> n, ret |-> Stored(n, entity_type)]

\* get(entity_type): the returned number and the dict it leaves behind
get(n, entity_type) ==
    LET m == setdefault(n, entity_type, 0)
    IN  [numbers |-> m, ret |-> m[entity_type]]

RECURSIVE sum_get(_, _, _)
sum_get(n, types, acc) ==
    IF types = <<>> THEN [numbers |-> n, ret |-> acc]
    ELSE LET g == get(n, Head(types))
         IN  sum_get(g.numbers, Tail(types), acc + g.ret)

\* daily_consumption with the NIGHT dose left out of the list
daily_consumption_no_night(n) == sum_get(n, <<MORNING, NOON, EVENING>>, 0)

daily_consumption(n) == sum_get(n, <<MORNING, NOON, EVENING, NIGHT>>, 0)

days_remaining(n) ==
    LET g == get(n, SUPPLY)
        d == daily_consumption(g.numbers)
    IN  IF d.ret > 0
        THEN [numbers |-> d.numbers, ret |-> TrueDiv(g.ret, d.ret)]
        ELSE [numbers |-> d.numbers, ret |-> Whole(SENTINEL)]

\* WarnSensor.update on the item/sensor record s
update(s) ==
    LET dr == days_remaining(s.numbers)
    IN  IF EqualsStr(dr.ret, STATE_UNAVAILABLE)
        THEN [s EXCEPT !.numbers = dr.numbers, !.is_on = FALSE,
                       !.available = FALSE, !.calls[WARNING] = @ + 1]
        ELSE [s EXCEPT !.numbers = dr.numbers, !.available = TRUE,
                       !.is_on = Less(dr.ret, s.data),
                       !.calls[WARNING] = @ + 1]

\* update of the EMPTYPREDICTION sub entity: shows days_remaining()
prediction_update(s) ==
    LET dr == days_remaining(s.numbers)
    IN  [s EXCEPT !.numbers = dr.numbers, !.prediction = dr.ret,
                  !.calls[EMPTYPREDICTION] = @ + 1]

sub_entity_update(s, et) ==
    IF et = WARNING THEN update(s) ELSE prediction_update(s)

\* the loop at the end of set
RECURSIVE notify(_, _)
notify(s, ets) ==
    IF ets = <<>> THEN s
    ELSE IF Head(ets) \in s.entity
         THEN notify(sub_entity_update(s, Head(ets)), Tail(ets))
         ELSE notify(s, Tail(ets))

\* set storing the value as given, without the clamp
set_unclamped(s, spec, val) ==
    notify([s EXCEPT !.numbers = setitem(s.numbers, spec, val)],
           <<EMPTYPREDICTION, WARNING>>)

\* set refreshing the sub entities before it stores the value
set_notify_first(s, spec, val) ==
    LET told == notify(s, <<EMPTYPREDICTION, WARNING>>)
    IN  [told EXCEPT !.numbers =
             setitem(told.numbers, spec, IF val < 0 THEN 0 ELSE val)]

set(s, spec, val) ==
    LET stored == [s EXCEPT !.numbers =
                       setitem(s.numbers, spec, IF val < 0 THEN 0 ELSE val)]
    IN  notify(stored, <<EMPTYPREDICTION, WARNING>>)

\* take_number writing the difference into the dict itself
take_number_direct(s, number) ==
    IF number # 0
    THEN LET g == get(s.numbers, SUPPLY)
         IN  [s EXCEPT !.numbers = setitem(g.numbers, SUPPLY, g.ret - number)]
    ELSE s

\* take_number adding the amount
take_number_added(s, number) ==
    IF number # 0
    THEN LET g == get(s.numbers, SUPPLY)
         IN  set([s EXCEPT !.numbers = g.numbers], SUPPLY, g.ret + number)
    ELSE s

\* take_number without the test for zero
take_number_unguarded(s, number) ==
    LET g == get(s.numbers, SUPPLY)
    IN  set([s EXCEPT !.numbers = g.numbers], SUPPLY, g.ret - number)

take_number(s, number) ==
    IF number # 0
    THEN LET g == get(s.numbers, SUPPLY)
         IN  set([s EXCEPT !.numbers = g.numbers], SUPPLY, g.ret - number)
    ELSE s

\* take_dose without the test of the tag
take_dose_unchecked(s, dose) ==
    LET g == get(s.numbers, dose)
    IN  take_number([s EXCEPT !.numbers = g.numbers], g.ret)

\* take_dose consuming one unit whatever the dose holds
take_dose_one(s, dose) ==
    IF dose \notin {MORNING, NOON, EVENING, NIGHT}
    THEN s
    ELSE take_number(s, 1)

take_dose(s, dose) ==
    IF dose \notin {MORNING, NOON, EVENING, NIGHT}
    THEN s
    ELSE LET g == get(s.numbers, dose)
         IN  take_number([s EXCEPT !.numbers = g.numbers], g.ret)

----------------------------------------------------------------------------
(* State machine *)

NoCalls == [et \in {WARNING, EMPTYPREDICTION} |-> 0]

\* the item and its sensors at the start of a call
self == [numbers |-> numbers, entity |-> entity, data |-> data,
         is_on |-> is_on, available |-> available,
         prediction |-> prediction, calls |-> NoCalls]

\* the call returns and leaves the item and its sensors as r
Become(s) ==
    \E r \in {s} :
        /\ numbers' = r.numbers
        /\ entity' = r.entity
        /\ data' = r.data
        /\ is_on' = r.is_on
        /\ available' = r.available
        /\ prediction' = r.prediction
        /\ calls' = r.calls

\* InventoryManagerItem.__init__: nothing stored, no sub entity registered
Created ==
    /\ numbers = << >>
    /\ entity = {}
    /\ is_on = FALSE
    /\ available = FALSE
    /\ prediction = None
    /\ calls = NoCalls
    /\ last = [op |-> "init", tag |-> 0, val |-> 0, had |-> 0]
    /\ ret = None

\* one configured threshold, the smallest considered
Init == Created /\ data = CHOOSE t \in Thresholds : \A u \in Thresholds : t <= u

\* any configured threshold
InitWarn == Created /\ data \in Thresholds

Set(q, v) ==
    /\ Become(set(self, q, v))
    /\ last' = [op |-> "set", tag |-> q, val |-> v, had |-> 0]
    /\ ret' = None

TakeNumber(a) ==
    /\ get(numbers, SUPPLY).ret - a <= MaxSupply
    /\ Become(take_number(self, a))
    /\ last' = [op |-> "take_number", tag |-> 0, val |-> a,
                had |-> Stored(numbers, SUPPLY)]
    /\ ret' = None

TakeDose(d) ==
    /\ Become(take_dose(self, d))
    /\ last' = [op |-> "take_dose", tag |-> d, val |-> 0,
                had |-> Stored(numbers, SUPPLY)]
    /\ ret' = None

Get(q) ==
    /\ Become([self EXCEPT !.numbers = get(numbers, q).numbers])
    /\ last' = [op |-> "get", tag |-> q, val |-> 0, had |-> 0]
    /\ ret' = Whole(get(numbers, q).ret)

DailyConsumption ==
    /\ Become([self EXCEPT !.numbers = daily_consumption(numbers).numbers])
    /\ last' = [op |-> "daily_consumption", tag |-> 0, val |-> 0, had |-> 0]
    /\ ret' = Whole(daily_consumption(numbers).ret)

DaysRemaining ==
    /\ Become([self EXCEPT !.numbers = days_remaining(numbers).numbers])
    /\ last' = [op |-> "days_remaining", tag |-> 0, val |-> 0, had |-> 0]
    /\ ret' = days_remaining(numbers).ret

\* WarnSensor.__init__
RegisterWarn ==
    /\ WARNING \notin entity
    /\ Become([self EXCEPT !.entity = @ \cup {WARNING},
                           !.available = FALSE, !.is_on = FALSE])
    /\ last' = [op |-> "register", tag |-> WARNING, val |-> 0, had |-> 0]
    /\ ret' = None

\* construction of the EMPTYPREDICTION sub entity
RegisterPrediction ==
    /\ EMPTYPREDICTION \notin entity
    /\ Become([self EXCEPT !.entity = @ \cup {EMPTYPREDICTION}])
    /\ last' = [op |-> "register", tag |-> EMPTYPREDICTION, val |-> 0, had |-> 0]
    /\ ret' = None

\* the host refreshing the warning sensor (update_before_add)
Update ==
    /\ WARNING \in entity
    /\ Become(update(self))
    /\ last' = [op |-> "update", tag |-> WARNING, val |-> 0, had |-> 0]
    /\ ret' = None

DoseArgs == InventoryManagerEntityType \cup {MORNING_NOON}

\* the tags of the number entities, the callers of set
NumberTypes == {SUPPLY, NIGHT, MORNING, NOON, EVENING}

\* The item driven through its number entities, before any sensor exists.
Next ==
    \/ \E q \in NumberTypes, v \in Vals : Set(q, v)
    \/ \E a \in Amounts : TakeNumber(a)
    \/ \E d \in DoseArgs : TakeDose(d)
    \/ \E q \in NumberTypes : Get(q)
    \/ DailyConsumption
    \/ DaysRemaining

Spec == Init /\ [][Next]_vars

\* set and get called with any member of the enumeration.
NextTags ==
    \/ \E q \in InventoryManagerEntityType, v \in Vals : Set(q, v)
    \/ \E q \in InventoryManagerEntityType : Get(q)

SpecTags == Init /\ [][NextTags]_vars

\* The item together with its sensors.
NextObs ==
    \/ \E q \in NumberTypes, v \in Vals : Set(q, v)
    \/ \E a \in Amounts : TakeNumber(a)
    \/ \E d \in DoseArgs : TakeDose(d)
    \/ RegisterWarn
    \/ RegisterPrediction
    \/ Update

SpecObs == Init /\ [][NextObs]_vars

\* The item with its warning sensor, under any threshold.
NextWarn ==
    \/ \E q \in NumberTypes, v \in Vals : Set(q, v)
    \/ RegisterWarn
    \/ Update

SpecWarn == InitWarn /\ [][NextWarn]_vars

----------------------------------------------------------------------------
(* Properties *)

Doses == {NIGHT, MORNING, NOON, EVENING}
Observers == {WARNING, EMPTYPREDICTION}

Max0(x) == IF x < 0 THEN 0 ELSE x

DoseSum(n) ==
    Stored(n, MORNING) + Stored(n, NOON) + Stored(n, EVENING) + Stored(n, NIGHT)

\* supply / dose sum, or the sentinel when no dose is set
DaysOf(n) ==
    IF DoseSum(n) = 0 THEN Whole(SENTINEL)
    ELSE TrueDiv(Stored(n, SUPPLY), DoseSum(n))

SensorsUntouched ==
    /\ is_on' = is_on
    /\ available' = available
    /\ prediction' = prediction

NotifiedOnce == \A et \in Observers : calls'[et] = IF et \in entity THEN 1 ELSE 0

\* C1: whatever sequence of set, take_number and take_dose calls was made,
\* with whatever values, every value stored in the quantity map is >= 0.
C1_StoredNonNegative == \A k \in DOMAIN numbers : numbers[k] >= 0

\* a negative value was handed to set and a zero is stored in its place
C1_Witness ==
    /\ last.op = "set"
    /\ last.val < 0
    /\ last.tag \in DOMAIN numbers
    /\ numbers[last.tag] = 0

\* C2: right after set(q, v), get(q) returns v when v >= 0 and 0 when v < 0,
\* and get of every other quantity returns what it returned before.
C2_SetThenGet ==
    [][last'.op = "set" =>
          /\ get(numbers', last'.tag).ret = (IF last'.val >= 0 THEN last'.val ELSE 0)
          /\ \A q \in InventoryManagerEntityType \ {last'.tag} :
                 get(numbers', q).ret = get(numbers, q).ret]_vars

\* a dose was set to a positive value while a supply is held
C2_Witness ==
    /\ last.op = "set"
    /\ last.tag = MORNING
    /\ last.val > 0
    /\ Stored(numbers, MORNING) = last.val
    /\ Stored(numbers, SUPPLY) > 0

\* C3: take_number(a) with a > 0 leaves a supply of max(0, s - a), s being
\* the supply before, and leaves the four doses as they were.
C3_TakeNumber ==
    [][(last'.op = "take_number" /\ last'.val > 0) =>
          /\ Stored(numbers', SUPPLY) = Max0(Stored(numbers, SUPPLY) - last'.val)
          /\ \A d \in Doses : Stored(numbers', d) = Stored(numbers, d)]_vars

\* more was taken than the supply held, and the supply is 0
C3_Witness ==
    /\ last.op = "take_number"
    /\ last.had > 0
    /\ last.val > last.had
    /\ Stored(numbers, SUPPLY) = 0

\* C4: take_number(0) changes neither the supply nor a dose and refreshes
\* no sub entity, whether or not sub entities are registered.
C4_TakeZero ==
    [][(last'.op = "take_number" /\ last'.val = 0) =>
          /\ \A q \in NumberTypes : Stored(numbers', q) = Stored(numbers, q)
          /\ calls' = NoCalls
          /\ SensorsUntouched]_vars

\* zero was taken from a non-empty supply with both sub entities registered
C4_Witness ==
    /\ last.op = "take_number"
    /\ last.val = 0
    /\ entity = Observers
    /\ Stored(numbers, SUPPLY) > 0

\* C5: take_dose with a tag that is no dose (SUPPLY, WARNING, EMPTYPREDICTION
\* or a combination of flags) changes no value and refreshes no sub entity.
C5_TakeDoseInvalid ==
    [][(last'.op = "take_dose" /\ last'.tag \notin Doses) =>
          /\ \A q \in DoseArgs : Stored(numbers', q) = Stored(numbers, q)
          /\ calls' = NoCalls
          /\ SensorsUntouched]_vars

\* take_dose(SUPPLY) was called on a non-empty supply with a sensor registered
C5_Witness ==
    /\ last.op = "take_dose"
    /\ last.tag = SUPPLY
    /\ last.had > 0
    /\ WARNING \in entity

\* C6: every set call refreshes each registered sub entity exactly once and
\* after the value is stored, so that the sub entity shows the state after
\* the call; an unregistered slot is skipped and the value is stored anyway.
C6_SetNotifies ==
    [][last'.op = "set" =>
          /\ NotifiedOnce
          /\ Stored(numbers', last'.tag) = Max0(last'.val)
          /\ WARNING \in entity =>
                 /\ available'
                 /\ is_on' <=> Less(DaysOf(numbers'), data)
          /\ EMPTYPREDICTION \in entity => prediction' = DaysOf(numbers')]_vars

\* a dose was set with the warning sensor registered, the prediction not
C6_Witness ==
    /\ last.op = "set"
    /\ last.tag = MORNING
    /\ last.val > 0
    /\ entity = {WARNING}
    /\ calls[WARNING] = 1
    /\ is_on

\* C7: daily_consumption() is the sum of the four doses, unset ones counting
\* 0; days_remaining() is 10000 when that sum is 0 and supply / sum otherwise.
C7_Derived ==
    /\ last.op = "daily_consumption" => ret = Whole(DoseSum(numbers))
    /\ last.op = "days_remaining" =>
           IF DoseSum(numbers) = 0
           THEN ret = Whole(SENTINEL)
           ELSE /\ ret.den > 0
                /\ ret.num * DoseSum(numbers) = Stored(numbers, SUPPLY) * ret.den

\* days_remaining returned a fraction that is no whole number
C7_Witness ==
    /\ last.op = "days_remaining"
    /\ DoseSum(numbers) > 1
    /\ ret.den > 1

\* C8: whenever no dose is set, the warning is off after WarnSensor.update
\* ran, for every threshold and every supply.
C8_NoWarnOnSentinel ==
    (calls[WARNING] > 0 /\ DoseSum(numbers) = 0) => ~is_on

\* C9 as stated: the quantity map never holds a key outside the five
\* storable quantities.
C9_OnlyStorableKeys == DOMAIN numbers \subseteq NumberTypes

\* C9 amended: set and get take WARNING and EMPTYPREDICTION like any other
\* tag: set stores max(0, v) under the tag, get returns the value held (0 for
\* a tag never written) and leaves the tag in the map; the five storable
\* quantities keep their values.
C9_VirtualTagsStored ==
    [][(last'.op \in {"set", "get"} /\ last'.tag \in Observers) =>
          /\ last'.tag \in DOMAIN numbers'
          /\ last'.op = "set" => numbers'[last'.tag] = Max0(last'.val)
          /\ last'.op = "get" =>
                 /\ ret' = Whole(Stored(numbers, last'.tag))
                 /\ numbers'[last'.tag] = Stored(numbers, last'.tag)
          /\ \A q \in NumberTypes : Stored(numbers', q) = Stored(numbers, q)]_vars

\* get(WARNING) was called on a map without that key, and now holds it
C9_Witness ==
    /\ last.op = "get"
    /\ last.tag = WARNING
    /\ WARNING \in DOMAIN numbers
    /\ EMPTYPREDICTION \notin DOMAIN numbers
    /\ ret = Whole(0)

\* C10: take_dose(d) for a dose d acts as take_number(get(d)): the supply
\* becomes max(0, s - get(d)) and never grows, the doses stay, each registered
\* sub entity is refreshed once; when get(d) is 0 nothing changes and no sub
\* entity is refreshed.
C10_TakeDose ==
    [][(last'.op = "take_dose" /\ last'.tag \in Doses) =>
          LET amount == Stored(numbers, last'.tag)
              s == Stored(numbers, SUPPLY)
          IN  /\ Stored(numbers', SUPPLY) = Max0(s - amount)
              /\ Stored(numbers', SUPPLY) <= s
              /\ \A d \in Doses : Stored(numbers', d) = Stored(numbers, d)
              /\ amount # 0 => NotifiedOnce
              /\ amount = 0 =>
                     /\ Stored(numbers', SUPPLY) = s
                     /\ calls' = NoCalls
                     /\ SensorsUntouched]_vars

\* a dose of one was taken from a supply of two, with a sensor registered
C10_Witness ==
    /\ last.op = "take_dose"
    /\ last.tag = EVENING
    /\ last.had = 2
    /\ Stored(numbers, EVENING) = 1
    /\ Stored(numbers, SUPPLY) = 1
    /\ calls[WARNING] = 1

====
